---- MODULE Spec2Model ----
(***************************************************************************)
(* Model of upload.py: the batch registration of open-data collection      *)
(* files in Onedata.  Strings that the program parses (location            *)
(* identifiers, index URLs) are sequences of one-character strings, so     *)
(* that urlparse and os.path.splitext are computed, not assumed.           *)
(***************************************************************************)
EXTENDS Integers, Sequences, FiniteSets, TLC

(***************************************************************************)
(* Bounds of the model.                                                    *)
(***************************************************************************)
\* longest list of --collection-url arguments
MaxCollections == 2
\* largest --logging-frequency
MaxFreq == 2
\* most registration calls of one run that do not end in 201
MaxFailures == 1

(***************************************************************************)
(* String helpers (Python str methods, 1-based; 0 stands for "not found"). *)
(***************************************************************************)
Max(S) == CHOOSE x \in S : \A y \in S : y <= x
Min(S) == CHOOSE x \in S : \A y \in S : x <= y

\* s.find(c) restricted to positions >= from
FindFrom(s, c, from) ==
    LET hits == {k \in from..Len(s) : s[k] = c}
    IN IF hits = {} THEN 0 ELSE Min(hits)

Find(s, c) == FindFrom(s, c, 1)

\* s.rfind(c)
RFind(s, c) ==
    LET hits == {k \in 1..Len(s) : s[k] = c}
    IN IF hits = {} THEN 0 ELSE Max(hits)

\* s[:k] and s[k:] of Python, for a 1-based position k of the first character kept/dropped
Before(s, k) == SubSeq(s, 1, k - 1)
From(s, k) == SubSeq(s, k, Len(s))

Letters ==
    {"a", "b", "c", "d", "e", "f", "g", "h", "i", "j", "k", "l", "m",
     "n", "o", "p", "q", "r", "s", "t", "u", "v", "w", "x", "y", "z"}
Digits == {"0", "1", "2", "3", "4", "5", "6", "7", "8", "9"}
\* urllib.parse.scheme_chars
scheme_chars == Letters \cup Digits \cup {"+", "-", "."}

(***************************************************************************)
(* urllib.parse.urlparse, as far as strip_server_url reads it: the scheme  *)
(* and the path.  The identifiers of the model hold no ';', whitespace or  *)
(* upper-case letter, so parameter splitting, stripping and lower-casing   *)
(* do not apply.                                                           *)
(***************************************************************************)
\* the position of the ':' that ends a scheme, 0 when url has no scheme
SchemeEnd(url) ==
    LET i == Find(url, ":")
    IN IF /\ i > 1
          /\ url[1] \in Letters
          /\ \A k \in 1..(i - 1) : url[k] \in scheme_chars
       THEN i
       ELSE 0

\* _splitnetloc: the position after a leading //netloc, 0 when rest has none
NetlocEnd(rest) ==
    LET delims == {k \in 3..Len(rest) : rest[k] \in {"/", "?", "#"}}
    IN IF Len(rest) >= 2 /\ rest[1] = "/" /\ rest[2] = "/"
       THEN IF delims = {} THEN Len(rest) + 1 ELSE Min(delims)
       ELSE 0

\* s.split(c, 1)[0]
CutAt(s, c) ==
    LET k == Find(s, c)
    IN IF k > 0 THEN Before(s, k) ELSE s

urlparse(url) ==
    LET i == SchemeEnd(url)
        rest1 == IF i > 0 THEN From(url, i + 1) ELSE url
        d == NetlocEnd(rest1)
        rest2 == IF d > 0 THEN From(rest1, d) ELSE rest1
    IN [scheme |-> IF i > 0 THEN Before(url, i) ELSE <<>>,
        netloc |-> IF d > 0 THEN SubSeq(rest1, 3, d - 1) ELSE <<>>,
        path |-> CutAt(CutAt(rest2, "#"), "?")]

\* a plausible slip: the parsed path is returned whether or not a scheme was found
strip_server_url_always_path(storage_file_id) ==
    urlparse(storage_file_id).path

strip_server_url(storage_file_id) ==
    LET parsed_url == urlparse(storage_file_id)
    IN IF parsed_url.scheme # <<>>
       THEN parsed_url.path
       ELSE storage_file_id

(***************************************************************************)
(* os.path.splitext (posixpath): the extension starts at the last dot of   *)
(* the last path segment, leading dots of the segment not counted.         *)
(***************************************************************************)
splitext(p) ==
    LET sepIndex == RFind(p, "/")
        dotIndex == RFind(p, ".")
        nonDot == {k \in (sepIndex + 1)..(dotIndex - 1) : p[k] # "."}
    IN IF dotIndex > sepIndex /\ nonDot # {}
       THEN <<Before(p, dotIndex), From(p, dotIndex)>>
       ELSE <<p, <<>>>>

DotJson == <<".", "j", "s", "o", "n">>
DotTxt == <<".", "t", "x", "t">>

(***************************************************************************)
(* The documents served to the run.  Location identifiers:                 *)
(*   IdRootA   r://s//e/a    IdBareB   /e/b      IdQueryC  r://s/e/c?v     *)
(*   IdSlashD  //e/d         IdNoHostE r:/e/e    IdBareQF  /e/f?v          *)
(*   IdFragG   r://s/e/g#x   IdColonH  /e:h                                *)
(***************************************************************************)
IdRootA == <<"r", ":", "/", "/", "s", "/", "/", "e", "/", "a">>
IdBareB == <<"/", "e", "/", "b">>
IdQueryC == <<"r", ":", "/", "/", "s", "/", "e", "/", "c", "?", "v">>
IdSlashD == <<"/", "/", "e", "/", "d">>
IdNoHostE == <<"r", ":", "/", "e", "/", "e">>
IdBareQF == <<"/", "e", "/", "f", "?", "v">>
IdFragG == <<"r", ":", "/", "/", "s", "/", "e", "/", "g", "#", "x">>
IdColonH == <<"/", "e", ":", "h">>

\* collection URLs
CollA == <<"h", ":", "/", "/", "o", "/", "1">>
CollB == <<"h", ":", "/", "/", "o", "/", "2">>
CollectionUrls == {CollA, CollB}

\* index URLs:  h://o/a.txt  h://o/a.json  h://o/b.json  h://o/b.json.txt  h://o.d/c  h://o/d.json
IdxATxt == <<"h", ":", "/", "/", "o", "/", "a", ".", "t", "x", "t">>
IdxAJson == <<"h", ":", "/", "/", "o", "/", "a", ".", "j", "s", "o", "n">>
IdxBJson == <<"h", ":", "/", "/", "o", "/", "b", ".", "j", "s", "o", "n">>
IdxBJsonTxt == <<"h", ":", "/", "/", "o", "/", "b", ".", "j", "s", "o", "n", ".", "t", "x", "t">>
IdxCNoExt == <<"h", ":", "/", "/", "o", ".", "d", "/", "c">>
IdxDJson == <<"h", ":", "/", "/", "o", "/", "d", ".", "j", "s", "o", "n">>

RootSpec(u, n, c) == [uri_root |-> u, size |-> n, checksum |-> c]
IndexSpec(u, n, c) == [uri |-> u, size |-> n, checksum |-> c]

\* The JSON document at a URL; every URL outside the manifests' .json entries
\* serves a one-entry list.
Document(url) ==
    CASE url = CollA ->
           [metadata |->
              [files |-> <<RootSpec(IdRootA, 1, "ck1"), RootSpec(IdBareB, 2, "ck2"),
                           RootSpec(IdQueryC, 4, "ck3")>>,
               index_files |-> <<[uri_http |-> IdxATxt], [uri_http |-> IdxAJson]>>]]
      [] url = CollB ->
           [metadata |->
              [files |-> <<>>,
               index_files |-> <<[uri_http |-> IdxBJson], [uri_http |-> IdxBJsonTxt],
                                 [uri_http |-> IdxCNoExt], [uri_http |-> IdxDJson]>>]]
      [] url = IdxAJson ->
           <<IndexSpec(IdSlashD, 8, "ck4"), IndexSpec(IdRootA, 1, "ck1")>>
      [] url = IdxBJson ->
           <<IndexSpec(IdNoHostE, 16, "ck5"), IndexSpec(IdBareQF, 0, "ck6"),
             IndexSpec(IdFragG, 32, "ck7"), IndexSpec(IdColonH, 64, "ck8"),
             IndexSpec(IdBareB, 2, "ck2")>>
      [] url = IdxDJson ->
           <<IndexSpec(IdFragG, 32, "ck7")>>
      [] OTHER ->
           <<IndexSpec(<<"/", "t">>, 128, "ck9")>>

\* What a GET of url can bring: the document, a transport failure, a body that is
\* not JSON, or (a manifest) JSON without the metadata keys.
Replies(url) ==
    IF url \in CollectionUrls
    THEN {"document", "unreachable", "not_json", "no_files_key", "no_index_files_key"}
    ELSE {"document", "unreachable", "not_json"}

\* download_and_load_json: urlopen raises URLError, json.load raises JSONDecodeError
download_and_load_json(url, reply) ==
    CASE reply = "unreachable" -> [raised |-> "URLError", value |-> <<>>]
      [] reply = "not_json" -> [raised |-> "JSONDecodeError", value |-> <<>>]
      [] reply = "no_files_key" ->
           [raised |-> "none",
            value |-> [metadata |-> [index_files |-> Document(url).metadata.index_files]]]
      [] reply = "no_index_files_key" ->
           [raised |-> "none",
            value |-> [metadata |-> [files |-> Document(url).metadata.files]]]
      [] OTHER -> [raised |-> "none", value |-> Document(url)]

RECURSIVE json_index_urls(_)
\* lines 152-160: the loop over collection["metadata"]["index_files"]
json_index_urls(index_files) ==
    IF index_files = <<>>
    THEN <<>>
    ELSE LET index_url == Head(index_files).uri_http
             ext == splitext(index_url)[2]
             rest == json_index_urls(Tail(index_files))
         IN IF ext = DotJson THEN <<index_url>> \o rest ELSE rest

RECURSIVE any_index_urls(_)
\* a plausible slip: .txt entries are surfaced as well
any_index_urls(index_files) ==
    IF index_files = <<>>
    THEN <<>>
    ELSE LET index_url == Head(index_files).uri_http
             ext == splitext(index_url)[2]
             rest == any_index_urls(Tail(index_files))
         IN IF ext \in {DotJson, DotTxt} THEN <<index_url>> \o rest ELSE rest

Reverse(s) == [k \in 1..Len(s) |-> s[Len(s) + 1 - k]]

\* a plausible slip: the index URLs are collected in reverse (insert at the front)
select_index_urls_reversed(index_files) ==
    Reverse(json_index_urls(index_files))

select_index_urls_with_txt(index_files) ==
    any_index_urls(index_files)

select_index_urls(index_files) ==
    json_index_urls(index_files)

get_files_and_json_indexes_urls(collection_url, reply) ==
    LET loaded == download_and_load_json(collection_url, reply)
        collection == loaded.value
    IN IF loaded.raised # "none"
       THEN [raised |-> loaded.raised, file_specs |-> <<>>, index_urls |-> <<>>]
       ELSE IF "index_files" \notin DOMAIN collection.metadata
               \/ "files" \notin DOMAIN collection.metadata
            THEN [raised |-> "KeyError", file_specs |-> <<>>, index_urls |-> <<>>]
            ELSE [raised |-> "none",
                  file_specs |-> collection.metadata.files,
                  index_urls |-> select_index_urls(collection.metadata.index_files)]

(***************************************************************************)
(* register_file.  response is what requests.post brings: an exception     *)
(* (raised) or a response with a status code.  The result records the      *)
(* POSTs issued, the value returned ("True", "False", or "None" for the    *)
(* implicit return of the except branch), what logging.error wrote, and    *)
(* whether an exception left the function.                                 *)
(***************************************************************************)
CREATED == 201
OtherStatuses == {200, 500}

Payload(storage_file_id, size, checksum) ==
    [storageFileId |-> storage_file_id,
     destinationPath |-> storage_file_id,
     size |-> size,
     mode |-> "0664",
     xattrs |-> [checksum |-> checksum],
     autoDetectAttributes |-> TRUE]

\* a plausible slip: any HTTP response counts as success
register_file_any_status(storage_file_id, size, checksum, response) ==
    LET stripped == strip_server_url(storage_file_id)
        payload == Payload(stripped, size, checksum)
    IN IF response.raised
       THEN [requests |-> <<payload>>, ret |-> "None", logged |-> "exception",
             escaped |-> FALSE]
       ELSE [requests |-> <<payload>>, ret |-> "True", logged |-> "none",
             escaped |-> FALSE]

\* a plausible slip: no try/except around the POST
register_file_no_try(storage_file_id, size, checksum, response) ==
    LET stripped == strip_server_url(storage_file_id)
        payload == Payload(stripped, size, checksum)
    IN IF response.raised
       THEN [requests |-> <<payload>>, ret |-> "None", logged |-> "none",
             escaped |-> TRUE]
       ELSE IF response.status_code = CREATED
            THEN [requests |-> <<payload>>, ret |-> "True", logged |-> "none",
                  escaped |-> FALSE]
            ELSE [requests |-> <<payload>>, ret |-> "False", logged |-> "status",
                  escaped |-> FALSE]

\* a plausible slip: a failed POST is sent once more
register_file_retry(storage_file_id, size, checksum, response) ==
    LET stripped == strip_server_url(storage_file_id)
        payload == Payload(stripped, size, checksum)
    IN IF response.raised
       THEN [requests |-> <<payload, payload>>, ret |-> "None", logged |-> "exception",
             escaped |-> FALSE]
       ELSE IF response.status_code = CREATED
            THEN [requests |-> <<payload>>, ret |-> "True", logged |-> "none",
                  escaped |-> FALSE]
            ELSE [requests |-> <<payload, payload>>, ret |-> "False", logged |-> "status",
                  escaped |-> FALSE]

register_file(storage_file_id, size, checksum, response) ==
    LET stripped == strip_server_url(storage_file_id)
        payload == Payload(stripped, size, checksum)
    IN IF response.raised
       THEN [requests |-> <<payload>>, ret |-> "None", logged |-> "exception",
             escaped |-> FALSE]
       ELSE IF response.status_code = CREATED
            THEN [requests |-> <<payload>>, ret |-> "True", logged |-> "none",
                  escaped |-> FALSE]
            ELSE [requests |-> <<payload>>, ret |-> "False", logged |-> "status",
                  escaped |-> FALSE]

\* Python truth value of register_file's result, as the callers' `if` reads it
Truthy(v) == v = "True"

\* what requests.post can bring
Responses ==
    {[raised |-> TRUE, status_code |-> 0]}
    \cup {[raised |-> FALSE, status_code |-> c] : c \in {CREATED} \cup OtherStatuses}

(***************************************************************************)
(* The run.  events is the run's observable trace: the GETs, the POSTs     *)
(* and the lines printed, in the order they happen.                        *)
(***************************************************************************)
VARIABLES
    args,               \* parser.parse_args(): collections, logging_freq
    pc,                 \* "collection", "index", "done", "crashed"
    ci,                 \* collection URLs taken so far by the loop of line 181
    file_specs,         \* line 183
    index_urls,         \* line 183
    fi,                 \* direct descriptors iterated so far (loop of line 188)
    ii,                 \* index URLs taken so far (loop of line 193)
    index_file_specs,   \* file_specs of register_files_from_index
    i,                  \* its enumerate position
    size_sum,           \* its size_sum
    count,              \* its count
    total_size,
    total_count,
    events

vars ==
    <<args, pc, ci, file_specs, index_urls, fi, ii, index_file_specs, i,
      size_sum, count, total_size, total_count, events>>

\* the -c arguments: one or more collection URLs, repeats allowed
CollectionLists == UNION {[1..n -> CollectionUrls] : n \in 1..MaxCollections}

\* --logging-frequency: 0 stands for the default None; line 169 reads both as false
Init ==
    /\ args \in [collections : CollectionLists, logging_freq : 0..MaxFreq]
    /\ pc = "collection"
    /\ ci = 0
    /\ file_specs = <<>>
    /\ index_urls = <<>>
    /\ fi = 0
    /\ ii = 0
    /\ index_file_specs = <<>>
    /\ i = 0
    /\ size_sum = 0
    /\ count = 0
    /\ total_size = 0
    /\ total_count = 0
    /\ events = <<>>

IsPost(e) == e.kind = "post"
IsFetch(e) == e.kind = "fetch"
Succeeded(e) == ~e.response.raised /\ e.response.status_code = CREATED

NumFailed(log) ==
    Cardinality({k \in 1..Len(log) : IsPost(log[k]) /\ ~Succeeded(log[k])})

\* the responses the model lets the server give to the next POST
NextResponses ==
    IF NumFailed(events) < MaxFailures
    THEN Responses
    ELSE {[raised |-> FALSE, status_code |-> CREATED]}

FetchEvent(url, reply, raised) ==
    [kind |-> "fetch", url |-> url, reply |-> reply, raised |-> raised]

PostEvents(uri, size, response, r, via, pos) ==
    [k \in 1..Len(r.requests) |->
        [kind |-> "post", uri |-> uri, size |-> size, request |-> r.requests[k],
         response |-> response, ret |-> r.ret, logged |-> r.logged,
         via |-> via, pos |-> pos]]

\* the for loops of lines 188 and 193 are both exhausted
BodyDone == fi = Len(file_specs) /\ ii = Len(index_urls)

\* lines 181-186: take the next collection URL and resolve it
ProcessCollection ==
    /\ pc = "collection"
    /\ BodyDone
    /\ ci < Len(args.collections)
    /\ \E reply \in Replies(args.collections[ci + 1]) :
         LET collection_url == args.collections[ci + 1]
             got == get_files_and_json_indexes_urls(collection_url, reply)
             head == <<[kind |-> "print_collection", url |-> collection_url],
                       FetchEvent(collection_url, reply, got.raised)>>
         IN /\ ci' = ci + 1
            /\ IF got.raised # "none"
               THEN /\ pc' = "crashed"
                    /\ events' = events \o head
                    /\ UNCHANGED <<file_specs, index_urls, fi, ii>>
               ELSE /\ pc' = "collection"
                    /\ file_specs' = got.file_specs
                    /\ index_urls' = got.index_urls
                    /\ fi' = 0
                    /\ ii' = 0
                    /\ events' = events \o head \o
                         (IF got.file_specs # <<>>
                          THEN <<[kind |-> "print_registering"]>>
                          ELSE <<>>)
    /\ UNCHANGED <<args, index_file_specs, i, size_sum, count, total_size, total_count>>

\* lines 188-191: one directly-listed descriptor
RegisterDirectFile ==
    /\ pc = "collection"
    /\ fi < Len(file_specs)
    /\ \E response \in NextResponses :
         LET file_spec == file_specs[fi + 1]
             r == register_file(file_spec.uri_root, file_spec.size,
                                file_spec.checksum, response)
         IN /\ events' = events \o
                  PostEvents(file_spec.uri_root, file_spec.size, response, r, "direct", fi)
            /\ IF r.escaped
               THEN /\ pc' = "crashed"
                    /\ UNCHANGED <<fi, total_size, total_count>>
               ELSE /\ pc' = "collection"
                    /\ fi' = fi + 1
                    /\ IF Truthy(r.ret)
                       THEN /\ total_size' = total_size + file_spec.size
                            /\ total_count' = total_count + 1
                       ELSE UNCHANGED <<total_size, total_count>>
    /\ UNCHANGED <<args, ci, file_specs, index_urls, ii, index_file_specs, i,
                   size_sum, count>>

\* a plausible slip: a failed index fetch is swallowed and the index skipped
StartIndexSwallow ==
    /\ pc = "collection"
    /\ fi = Len(file_specs)
    /\ ii < Len(index_urls)
    /\ \E reply \in Replies(index_urls[ii + 1]) :
         LET index_url == index_urls[ii + 1]
             loaded == download_and_load_json(index_url, reply)
         IN /\ ii' = ii + 1
            /\ events' = events \o
                  <<[kind |-> "print_index", url |-> index_url],
                    FetchEvent(index_url, reply, loaded.raised)>>
            /\ pc' = "index"
            /\ index_file_specs' = loaded.value
            /\ i' = 0
            /\ size_sum' = 0
            /\ count' = 0
    /\ UNCHANGED <<args, ci, file_specs, index_urls, fi, total_size, total_count>>

\* lines 193-195 and 165-167: take the next index URL and fetch its document
StartIndex ==
    /\ pc = "collection"
    /\ fi = Len(file_specs)
    /\ ii < Len(index_urls)
    /\ \E reply \in Replies(index_urls[ii + 1]) :
         LET index_url == index_urls[ii + 1]
             loaded == download_and_load_json(index_url, reply)
         IN /\ ii' = ii + 1
            /\ events' = events \o
                  <<[kind |-> "print_index", url |-> index_url],
                    FetchEvent(index_url, reply, loaded.raised)>>
            /\ IF loaded.raised # "none"
               THEN /\ pc' = "crashed"
                    /\ UNCHANGED <<index_file_specs, i, size_sum, count>>
               ELSE /\ pc' = "index"
                    /\ index_file_specs' = loaded.value
                    /\ i' = 0
                    /\ size_sum' = 0
                    /\ count' = 0
    /\ UNCHANGED <<args, ci, file_specs, index_urls, fi, total_size, total_count>>

\* a plausible slip: the i > 0 test of line 169 is left out
ShouldLogAtZero(pos) ==
    args.logging_freq # 0 /\ pos % args.logging_freq = 0

\* line 169
ShouldLog(pos) ==
    args.logging_freq # 0 /\ pos % args.logging_freq = 0 /\ pos > 0

\* lines 168-173: one descriptor of the index document
RegisterIndexedFile ==
    /\ pc = "index"
    /\ i < Len(index_file_specs)
    /\ \E response \in NextResponses :
         LET file_spec == index_file_specs[i + 1]
             r == register_file(file_spec.uri, file_spec.size, file_spec.checksum,
                                response)
             notice == IF ShouldLog(i)
                       THEN <<[kind |-> "print_registered", value |-> i]>>
                       ELSE <<>>
         IN /\ events' = events \o notice \o
                  PostEvents(file_spec.uri, file_spec.size, response, r, "index", i)
            /\ IF r.escaped
               THEN /\ pc' = "crashed"
                    /\ UNCHANGED <<i, size_sum, count>>
               ELSE /\ pc' = "index"
                    /\ i' = i + 1
                    /\ IF Truthy(r.ret)
                       THEN /\ size_sum' = size_sum + file_spec.size
                            /\ count' = count + 1
                       ELSE UNCHANGED <<size_sum, count>>
    /\ UNCHANGED <<args, ci, file_specs, index_urls, fi, ii, index_file_specs,
                   total_size, total_count>>

\* a plausible slip: the index's sums are returned and dropped
AccumulateIndexDropped ==
    /\ pc = "index"
    /\ i = Len(index_file_specs)
    /\ pc' = "collection"
    /\ UNCHANGED <<args, ci, file_specs, index_urls, fi, ii, index_file_specs, i,
                   size_sum, count, events, total_size, total_count>>

\* lines 174 and 195-197: the index is exhausted, its sums join the totals
AccumulateIndex ==
    /\ pc = "index"
    /\ i = Len(index_file_specs)
    /\ total_size' = total_size + size_sum
    /\ total_count' = total_count + count
    /\ pc' = "collection"
    /\ UNCHANGED <<args, ci, file_specs, index_urls, fi, ii, index_file_specs, i,
                   size_sum, count, events>>

\* lines 199-200: every collection is processed
ReportTotals ==
    /\ pc = "collection"
    /\ BodyDone
    /\ ci = Len(args.collections)
    /\ events' = events \o
          <<[kind |-> "print_totals", count |-> total_count, size |-> total_size]>>
    /\ pc' = "done"
    /\ UNCHANGED <<args, ci, file_specs, index_urls, fi, ii, index_file_specs, i,
                   size_sum, count, total_size, total_count>>

Next ==
    \/ ProcessCollection
    \/ RegisterDirectFile
    \/ StartIndex
    \/ RegisterIndexedFile
    \/ AccumulateIndex
    \/ ReportTotals

Spec == Init /\ [][Next]_vars

(***************************************************************************)
(* What the documents say a run has to do, read off the documents alone.   *)
(***************************************************************************)
HasSuffix(s, suffix) ==
    Len(s) >= Len(suffix) /\ SubSeq(s, Len(s) - Len(suffix) + 1, Len(s)) = suffix

IsPrefix(a, b) == Len(a) <= Len(b) /\ SubSeq(b, 1, Len(a)) = a

RECURSIVE ConcatAll(_)
ConcatAll(seqs) ==
    IF seqs = <<>> THEN <<>> ELSE Head(seqs) \o ConcatAll(Tail(seqs))

RECURSIVE SumSizes(_)
SumSizes(specs) ==
    IF specs = <<>> THEN 0 ELSE Head(specs).size + SumSizes(Tail(specs))

IsJsonEntry(entry) == HasSuffix(entry.uri_http, DotJson)

\* the .json index URLs of a manifest, in manifest order
JsonUrls(c) ==
    LET kept == SelectSeq(Document(c).metadata.index_files, IsJsonEntry)
    IN [k \in 1..Len(kept) |-> kept[k].uri_http]

Step(kind, id, size) == [kind |-> kind, id |-> id, size |-> size]

IndexSteps(url) ==
    <<Step("fetch", url, 0)>> \o
    [k \in 1..Len(Document(url)) |->
        Step("post", Document(url)[k].uri, Document(url)[k].size)]

CollectionSteps(c) ==
    <<Step("fetch", c, 0)>> \o
    [k \in 1..Len(Document(c).metadata.files) |->
        Step("post", Document(c).metadata.files[k].uri_root,
             Document(c).metadata.files[k].size)] \o
    ConcatAll([k \in 1..Len(JsonUrls(c)) |-> IndexSteps(JsonUrls(c)[k])])

StepsOf == [c \in CollectionUrls |-> CollectionSteps(c)]

\* every GET and POST of a run that nothing aborts, in order
ExpectedSteps(collections) ==
    ConcatAll([k \in 1..Len(collections) |-> StepsOf[collections[k]]])

IsPostStep(st) == st.kind = "post"
ExpectedPosts(collections) == SelectSeq(ExpectedSteps(collections), IsPostStep)

\* the GETs and POSTs of the trace
IsIO(e) == IsFetch(e) \/ IsPost(e)
IOTrace(log) ==
    LET io == SelectSeq(log, IsIO)
    IN [k \in 1..Len(io) |->
          IF IsFetch(io[k])
          THEN Step("fetch", io[k].url, 0)
          ELSE Step("post", io[k].uri, io[k].size)]

Posts(log) == SelectSeq(log, IsPost)
PostSteps(log) == SelectSeq(IOTrace(log), IsPostStep)
Created(log) == SelectSeq(Posts(log), Succeeded)
Last(log) == log[Len(log)]
IsFailedFetch(e) == IsFetch(e) /\ e.raised # "none"
IsNotice(e) == e.kind = "print_registered"
StatusFailed(e) == IsPost(e) /\ ~e.response.raised /\ e.response.status_code # CREATED
Raised(e) == IsPost(e) /\ e.response.raised

\* the running totals: the globals, and inside register_files_from_index its sums
RunCount == total_count + (IF pc = "index" THEN count ELSE 0)
RunBytes == total_size + (IF pc = "index" THEN size_sum ELSE 0)

(***************************************************************************)
(* The claims.                                                             *)
(***************************************************************************)

\* C1: the running totals never decrease; a step whose registration call is
\* answered 201 raises the count by 1 and the bytes by that descriptor's size;
\* a step whose call ends otherwise (another status, an exception), and a step
\* with no registration call, leave both totals as they were.
C1_TotalsFollowCreated ==
    [][LET new == SubSeq(events', Len(events) + 1, Len(events'))
           posts == Posts(new)
       IN /\ RunCount' >= RunCount
          /\ RunBytes' >= RunBytes
          /\ \A k \in 1..Len(posts) :
                IF Succeeded(posts[k])
                THEN RunCount' = RunCount + 1 /\ RunBytes' = RunBytes + posts[k].size
                ELSE RunCount' = RunCount /\ RunBytes' = RunBytes
          /\ posts = <<>> => RunCount' = RunCount /\ RunBytes' = RunBytes]_vars

\* C1 witness: inside an index, after 201 answers counted both in the globals
\* and in the index's own sums, and after a call that raised
C1_Witness ==
    /\ pc = "index"
    /\ count > 0
    /\ total_count > 0
    /\ \E k \in 1..Len(events) : Raised(events[k])

\* C2: at the end of a run (every fetch succeeded), the totals printed are the
\* number and the summed sizes of the descriptors answered 201, the descriptors
\* POSTed being all those of the collections, direct and indexed; with every
\* call answered 201 they are the number and size of all of them.
C2_FinalTotals ==
    pc = "done" =>
        /\ Last(events).kind = "print_totals"
        /\ Last(events).count = Len(Created(events))
        /\ Last(events).size = SumSizes(Created(events))
        /\ PostSteps(events) = ExpectedPosts(args.collections)
        /\ NumFailed(events) = 0 =>
              /\ Last(events).count = Len(ExpectedPosts(args.collections))
              /\ Last(events).size = SumSizes(ExpectedPosts(args.collections))

\* C2 witness: the collection with 3 direct descriptors and one .json index of
\* 2, all five answered 201: count 5, bytes 1 + 2 + 4 + 8 + 1
C2_Witness ==
    /\ pc = "done"
    /\ args.collections = <<CollA>>
    /\ NumFailed(events) = 0
    /\ Last(events).count = 5
    /\ Last(events).size = 16

\* C3: a failed registration (another status or an exception) never aborts the
\* run: the run stops early only on a failed fetch, a failure leaves the totals
\* equal to what the 201 answers add up to, the run is still in its loops right
\* after it, the POSTs follow the documents' descriptors one by one, and a
\* finished run has POSTed every descriptor.
C3_FailureDoesNotAbort ==
    /\ pc = "crashed" => IsFailedFetch(Last(events))
    /\ \A k \in 1..Len(events) :
          IsPost(events[k]) /\ ~Succeeded(events[k]) /\ k = Len(events)
             => pc \in {"collection", "index"}
    /\ RunCount = Len(Created(events))
    /\ RunBytes = SumSizes(Created(events))
    /\ IsPrefix(PostSteps(events), ExpectedPosts(args.collections))
    /\ pc = "done" => PostSteps(events) = ExpectedPosts(args.collections)

\* C3 witness: a finished run of two collections in which a 500 for a direct
\* descriptor of the first was followed by a 201 in an index of the second
C3_Witness ==
    /\ pc = "done"
    /\ args.collections = <<CollA, CollB>>
    /\ \E j, l \in 1..Len(events) :
          /\ StatusFailed(events[j])
          /\ events[j].response.status_code = 500
          /\ events[j].via = "direct"
          /\ j < l
          /\ IsPost(events[l]) /\ Succeeded(events[l]) /\ events[l].uri = IdColonH

\* C4: every descriptor iterated is exactly one POST, whatever the outcome (no
\* retry), no other step POSTs, and a finished run has POSTed the descriptors
\* of its collections one for one, repeats included (no deduplication).
C4_OnePostPerDescriptor ==
    /\ [][LET n == Len(Posts(events')) - Len(Posts(events))
          IN IF fi' = fi + 1 \/ (pc = "index" /\ i' = i + 1)
             THEN n = 1
             ELSE n = 0]_vars
    /\ [](pc = "done" => PostSteps(events) = ExpectedPosts(args.collections))

\* C4 witness: the same collection listed twice, a failed call among the ten,
\* and the identifier that the collection names twice POSTed four times
C4_Witness ==
    /\ pc = "done"
    /\ args.collections = <<CollA, CollA>>
    /\ NumFailed(events) > 0
    /\ Len(Posts(events)) = 10
    /\ Cardinality({k \in 1..Len(events) :
                       IsPost(events[k]) /\ events[k].uri = IdRootA}) = 4

\* C5: a failed fetch of a manifest or of an index document ends the run: it is
\* the last event of the trace (no POST, no GET, no summary after it) and
\* nothing more can happen.
C5_FetchFailureAborts ==
    /\ \A k \in 1..Len(events) :
          IsFailedFetch(events[k]) => k = Len(events) /\ pc = "crashed"
    /\ pc = "crashed" => ~ENABLED Next

\* C5 witness: an index document that is not JSON, after registrations, with
\* another collection still to come
C5_Witness ==
    /\ pc = "crashed"
    /\ Last(events).raised = "JSONDecodeError"
    /\ Last(events).url = IdxAJson
    /\ ci < Len(args.collections)
    /\ Len(Posts(events)) > 0

\* C6: with logging interval n, a progress notice is printed exactly at the
\* positions i > 0 with i mod n = 0 of an index document, right before the
\* POST of the descriptor at position i, and carries i; none at position 0,
\* none without an interval, none for directly-listed files.
C6_ProgressNotices ==
    \A k \in 1..Len(events) :
        /\ IsNotice(events[k]) =>
              /\ args.logging_freq > 0
              /\ events[k].value > 0
              /\ events[k].value % args.logging_freq = 0
              /\ k < Len(events)
              /\ IsPost(events[k + 1])
              /\ events[k + 1].via = "index"
              /\ events[k + 1].pos = events[k].value
        /\ (/\ IsPost(events[k])
            /\ events[k].via = "index"
            /\ args.logging_freq > 0
            /\ events[k].pos > 0
            /\ events[k].pos % args.logging_freq = 0) =>
              /\ k > 1
              /\ IsNotice(events[k - 1])
              /\ events[k - 1].value = events[k].pos

NoticeValues(log) ==
    LET notices == SelectSeq(log, IsNotice)
    IN [k \in 1..Len(notices) |-> notices[k].value]

\* C6 witness: interval 2, the index of 5 entries (and one more index after
\* it) fully registered: the notices are those of positions 2 and 4
C6_Witness ==
    /\ pc = "done"
    /\ args.logging_freq = 2
    /\ args.collections = <<CollB>>
    /\ NoticeValues(events) = <<2, 4>>

\* C7: the index URLs a resolved collection yields are exactly its manifest's
\* entries ending in .json, in manifest order; no other index entry is ever
\* fetched, none of its descriptors is POSTed, and the totals are those of the
\* 201 answers to the POSTs made.
C7_OnlyJsonIndexes ==
    /\ (ci > 0 /\ pc # "crashed") => index_urls = JsonUrls(args.collections[ci])
    /\ \A k \in 1..Len(events) :
          /\ IsFetch(events[k]) =>
                events[k].url \in CollectionUrls \/ HasSuffix(events[k].url, DotJson)
          /\ IsPost(events[k]) => events[k].uri # Document(IdxATxt)[1].uri
    /\ RunBytes = SumSizes(Created(events))

\* C7 witness: a finished run over both collections, whose manifests hold a
\* .txt entry, a .json.txt entry and an entry without extension
C7_Witness ==
    /\ pc = "done"
    /\ args.collections = <<CollA, CollB>>
    /\ index_urls = <<IdxBJson, IdxDJson>>

Schemes == {<<"r">>}
Authorities == {<<>>, <<"/", "/", "s">>}
AbsPaths ==
    {<<"/", "/", "e", "/", "a">>, <<"/", "e", "/", "c">>, <<"/", "e", "/", "e">>,
     <<"/", "e", "/", "g">>}
Trailers == {<<>>, <<"?", "v">>, <<"#", "x">>}

\* the identifiers with a scheme, each with the path it holds
Composed ==
    {[uri |-> sc \o <<":">> \o au \o pa \o tr, path |-> pa] :
        sc \in Schemes, au \in Authorities, pa \in AbsPaths, tr \in Trailers}

\* C8: in every POST, storageFileId equals destinationPath; an identifier
\* scheme ":" ["//" host] path ["?" query | "#" fragment] is sent as its path,
\* and an identifier without a scheme (it starts with "/") is sent as it is.
C8_NormalizedPath ==
    \A k \in 1..Len(events) :
        IsPost(events[k]) =>
            LET uri == events[k].uri
                sent == events[k].request.storageFileId
            IN /\ events[k].request.destinationPath = sent
               /\ \A c \in Composed : uri = c.uri => sent = c.path
               /\ uri[1] = "/" => sent = uri
               /\ uri[1] = "/" \/ \E c \in Composed : uri = c.uri

\* C8 witness: POSTs made for r://s//e/a (sent as //e/a), for r:/e/e, for a
\* URL with a query, and for the scheme-less //e/d and /e/f?v
C8_Witness ==
    /\ \E k \in 1..Len(events) :
          /\ IsPost(events[k])
          /\ events[k].uri = IdRootA
          /\ events[k].request.storageFileId = <<"/", "/", "e", "/", "a">>
    /\ \A u \in {IdQueryC, IdSlashD, IdNoHostE, IdBareQF} :
          \E k \in 1..Len(events) : IsPost(events[k]) /\ events[k].uri = u

\* C9: when the POST raises, register_file records the failure and returns
\* False, the boolean it returns for a status other than 201.
C9_ExceptionReturnsFalse ==
    \A k \in 1..Len(events) :
        Raised(events[k]) =>
            events[k].logged = "exception" /\ events[k].ret = "False"

\* C10: the GETs and POSTs of a run are, in order, a prefix of: per collection
\* in configuration order, the manifest's GET, the POSTs of its direct
\* descriptors in manifest order, then per .json index in manifest order its
\* GET and the POSTs of its descriptors in document order.
C10_EventOrder ==
    /\ IsPrefix(IOTrace(events), ExpectedSteps(args.collections))
    /\ pc = "done" => IOTrace(events) = ExpectedSteps(args.collections)

\* C10 witness: a finished run of two collections, the first with two .json
\* indexes, the second with direct descriptors and one
C10_Witness ==
    /\ pc = "done"
    /\ args.collections = <<CollB, CollA>>
    /\ Len(IOTrace(events)) = 16

====
